---- MODULE Spec2Model ----
(***************************************************************************)
(* Model of the C# model-class builder of autorest.powershell              *)
(* (extensions/csharp-v2/model/model-class.ts, property.ts,                *)
(* proxy-property.ts): the ModelClass constructor, the flattening of       *)
(* allOf parents, the discriminator registry and the private field         *)
(* naming.                                                                 *)
(***************************************************************************)
EXTENDS Integers, Sequences, FiniteSets, TLC

VARIABLES schemas, classes, error, nameFields, nameBase, nameResult

vars == <<schemas, classes, error, nameFields, nameBase, nameResult>>

(***************************************************************************)
(* Bounds of the model.                                                    *)
(***************************************************************************)
NumSchemas == 3
MaxAllOf == 2
MaxCallDepth == 4
MaxSuffix == 100

Schemas == 1..NumSchemas

NoValue == <<>>
NoError == "none"
RangeError == "RangeError: Maximum call stack size exceeded"
UnexpectedNumber == "Unexpected number of private fields"

(***************************************************************************)
(* Strings are sequences of one-character strings, so that the template    *)
(* literal `${baseName}${n}` is a real concatenation.                      *)
(***************************************************************************)
Digit(d) == <<"0", "1", "2", "3", "4", "5", "6", "7", "8", "9">>[d + 1]

RECURSIVE NumberToString(_)
NumberToString(n) == IF n < 10 THEN <<Digit(n)>> ELSE NumberToString(n \div 10) \o <<Digit(n % 10)>>

RECURSIVE SeqsUpTo(_, _)
SeqsUpTo(S, n) ==
  IF n = 0 THEN {<<>>}
  ELSE LET shorter == SeqsUpTo(S, n - 1)
       IN shorter \cup {Append(q, x) : q \in {r \in shorter : Len(r) = n - 1}, x \in S}

(***************************************************************************)
(* The schema graph given to the builder.                                  *)
(***************************************************************************)
SchemaName(s) == <<"M">> \o NumberToString(s)
DiscriminatorValue(s) == <<"v">> \o NumberToString(s)

Prop(s, kind) ==
  [name |-> <<"P">> \o NumberToString(s),
   readOnly |-> (kind = "readOnly"),
   header |-> (kind = "header"),
   required |-> (kind = "required")]

(* a second property of the schema, declared after a required one *)
SecondProp(s) == [Prop(s, "plain") EXCEPT !.name = <<"Q">> \o NumberToString(s)]

PropertyChoices(s) ==
  {<<>>, <<Prop(s, "plain")>>, <<Prop(s, "readOnly")>>, <<Prop(s, "header")>>,
   <<Prop(s, "required"), SecondProp(s)>>}

NoRepeat(q) == \A i, j \in 1..Len(q) : i # j => q[i] # q[j]

(* the allOf lists of schemas 1..n: a parent has a smaller number than its   *)
(* children, so that the graph is a DAG; repeats says whether a list may     *)
(* name the same parent more than once                                       *)
RECURSIVE Graphs(_, _)
Graphs(n, repeats) ==
  IF n = 0 THEN {<<>>}
  ELSE {Append(g, l) : g \in Graphs(n - 1, repeats),
                       l \in {q \in SeqsUpTo(1..(n - 1), MaxAllOf) : repeats \/ NoRepeat(q)}}

(* schemas that differ in their parents, discriminators and discriminator    *)
(* values                                                                    *)
PolySchemas(g, d, v) ==
  [s \in Schemas |->
     [allOf |-> g[s],
      discriminator |-> d[s],
      discriminatorValue |-> IF v[s] THEN DiscriminatorValue(s) ELSE NoValue,
      properties |-> <<>>,
      additionalProperties |-> "absent"]]

(* schemas that differ in their parents, properties and additionalProperties *)
ShapeSchemas(g, p, a) ==
  [s \in Schemas |->
     [allOf |-> g[s],
      discriminator |-> FALSE,
      discriminatorValue |-> NoValue,
      properties |-> p[s],
      additionalProperties |-> a[s]]]

(***************************************************************************)
(* Descriptors.                                                            *)
(***************************************************************************)
EmptyMap == <<>>

MapSet(m, k, v) == [x \in (DOMAIN m) \cup {k} |-> IF x = k THEN v ELSE m[x]]

Unbuilt ==
  [built |-> FALSE,
   isPolymorphic |-> FALSE,
   discriminators |-> EmptyMap,
   parentModelClasses |-> <<>>,
   interfaces |-> <<>>,
   backingFields |-> <<>>,
   fields |-> <<>>,
   properties |-> <<>>,
   validationStatements |-> <<>>,
   hasHeaderProperties |-> FALSE,
   members |-> {}]


(***************************************************************************)
(* ModelInterface (interface.ts): what the constructor needs from it.  The  *)
(* interface of a class starts with no parent interface on it; its         *)
(* properties are the schema's, a read-only one with an internal setter,   *)
(* followed by those of the interfaces it extends.                         *)
(***************************************************************************)
InterfaceProperty(prop) ==
  [name |-> prop.name,
   setAccess |-> IF prop.readOnly THEN "internal" ELSE "public",
   header |-> prop.header]

RECURSIVE AllPropertiesOver(_, _, _)
AllProperties(c, p) ==
  [i \in 1..Len(schemas[p].properties) |-> InterfaceProperty(schemas[p].properties[i])]
    \o AllPropertiesOver(c, c[p].interfaces, 1)

AllPropertiesOver(c, ifaces, i) ==
  IF i > Len(ifaces) THEN <<>>
  ELSE AllProperties(c, ifaces[i]) \o AllPropertiesOver(c, ifaces, i + 1)

(* Array.prototype.indexOf: the zero-based index of the first occurrence, or -1 *)
IndexOf(q, x) ==
  IF \E i \in 1..Len(q) : q[i] = x
  THEN (CHOOSE i \in 1..Len(q) : q[i] = x /\ \A j \in 1..(i - 1) : q[j] # x) - 1
  ELSE -1

(* a JavaScript number used as a condition *)
Truthy(n) == n # 0

(***************************************************************************)
(* getPrivateNameForField                                                  *)
(***************************************************************************)
MaxAttempts == 100

FieldNames(fields) == {fields[i].name : i \in 1..Len(fields)}

(* a scan whose suffixes start at 1 *)
SuffixedNameFromOne(baseName, n) == baseName \o NumberToString(n + 1)

(* name = `${baseName}${n++}` *)
SuffixedName(baseName, n) == baseName \o NumberToString(n)

RECURSIVE PrivateNameScan(_, _, _, _)
PrivateNameScan(fields, baseName, name, n) ==
  IF name \notin FieldNames(fields)
  THEN [thrown |-> FALSE, name |-> name]
  ELSE IF n + 1 < MaxAttempts
       THEN PrivateNameScan(fields, baseName, SuffixedName(baseName, n), n + 1)
       ELSE [thrown |-> TRUE, name |-> <<>>]

GetPrivateNameForField(fields, baseName) == PrivateNameScan(fields, baseName, baseName, 0)

(***************************************************************************)
(* The builder.  A build state st is [classes, error]; every step maps a   *)
(* build state to a build state and does nothing once an error is thrown.  *)
(***************************************************************************)
Throw(st, e) == [st EXCEPT !.error = e]

(* this.hasHeaderProperties: any of the schema's own properties is a header *)
HasHeaderProperties(s) ==
  \E i \in 1..Len(schemas[s].properties) : schemas[s].properties[i].header

(* a builder that also takes a discriminator value for a discriminator *)
IsPolymorphicOrHasValue(s) ==
  schemas[s].discriminator \/ schemas[s].discriminatorValue # NoValue

(* if (this.schema.discriminator) this.isPolymorphic = true *)
IsPolymorphicSchema(s) == schemas[s].discriminator

NewClass(s) ==
  [Unbuilt EXCEPT !.built = TRUE,
                  !.hasHeaderProperties = HasHeaderProperties(s),
                  !.isPolymorphic = IsPolymorphicSchema(s),
                  !.members = {"Constructor"}]

(* a registry that does not tell the parents of the parent *)
NoForwarding(c, target) == <<>>

(* the parents an addDiscriminator call is forwarded to *)
ForwardTargets(c, target) == c[target].parentModelClasses

RECURSIVE AddDiscriminator(_, _, _, _, _)
RECURSIVE ForwardDiscriminator(_, _, _, _, _, _)
AddDiscriminator(st, target, discriminatorValue, modelClass, depth) ==
  IF st.error # NoError THEN st
  ELSE IF depth > MaxCallDepth + NumSchemas THEN Throw(st, RangeError)
  ELSE LET st1 == [st EXCEPT !.classes[target].discriminators =
                                MapSet(@, discriminatorValue, modelClass)]
       IN ForwardDiscriminator(st1, ForwardTargets(st1.classes, target), 1,
                               discriminatorValue, modelClass, depth)

ForwardDiscriminator(st, parents, i, discriminatorValue, modelClass, depth) ==
  IF i > Len(parents) \/ st.error # NoError THEN st
  ELSE ForwardDiscriminator(
         AddDiscriminator(st, parents[i], discriminatorValue, modelClass, depth + 1),
         parents, i + 1, discriminatorValue, modelClass, depth)

(* this.backingFields.push / addField / VirtualProperty of one parent property *)
BackingFieldBaseName(p) == <<"_", "m">> \o Tail(SchemaName(p))

(* new VirtualProperty(name, ...): getter and setter statements are both set *)
NewVirtualProperty(name, p) ==
  [name |-> name, getter |-> TRUE, setter |-> TRUE, parent |-> p]

(* lines 292-299: the setter is removed for things that are internal *)
VirtualProperty(each, p) ==
  LET vp == NewVirtualProperty(each.name, p)
  IN IF each.setAccess = "internal" THEN [vp EXCEPT !.setter = FALSE] ELSE vp

VirtualProperties(c, p) ==
  LET all == AllProperties(c, p)
  IN [i \in 1..Len(all) |-> VirtualProperty(all[i], p)]

RECURSIVE Build(_, _)
RECURSIVE ImplementInterfaceForParentSchema(_, _, _, _)
RECURSIVE ImplementParentsOfParent(_, _, _, _, _)
RECURSIVE RegisterWithParents(_, _, _)
RECURSIVE ImplementParents(_, _, _)

(* resolveTypeDeclaration(schema, true, state): the descriptor of the schema, *)
(* built now unless the schema already has one                               *)
ResolveTypeDeclaration(st, p) ==
  IF st.error # NoError \/ st.classes[p].built THEN st ELSE Build(st, p)

ImplementInterfaceForParentSchema(st, d, p, depth) ==
  IF st.error # NoError THEN st
  ELSE IF depth > MaxCallDepth THEN Throw(st, RangeError)
  ELSE
    LET st1 == ResolveTypeDeclaration(st, p)
    IN IF st1.error # NoError THEN st1
       ELSE IF Truthy(IndexOf(st1.classes[d].interfaces, p)) THEN st1
       ELSE
         LET named == GetPrivateNameForField(st1.classes[d].fields, BackingFieldBaseName(p))
         IN IF named.thrown THEN Throw(st1, UnexpectedNumber)
            ELSE
              LET cls == st1.classes[d]
                  st2 == [st1 EXCEPT !.classes[d] =
                            [cls EXCEPT
                               !.interfaces = Append(@, p),
                               !.fields = Append(@, [name |-> named.name]),
                               !.backingFields =
                                  Append(@, [className |-> SchemaName(p),
                                             typeDeclaration |-> p,
                                             field |-> named.name]),
                               !.properties = @ \o VirtualProperties(st1.classes, p),
                               !.validationStatements =
                                  @ \o <<[check |-> "presence", of |-> "parent", name |-> named.name],
                                         [check |-> "value", of |-> "parent", name |-> named.name]>>]]
              IN ImplementParentsOfParent(st2, d, p, 1, depth)

(* for (const each of parentSchema.allOf) this.implementInterfaceForParentSchema(parentSchema, ...) *)
ImplementParentsOfParent(st, d, p, i, depth) ==
  IF i > Len(schemas[p].allOf) \/ st.error # NoError THEN st
  ELSE ImplementParentsOfParent(
         ImplementInterfaceForParentSchema(st, d, p, depth + 1), d, p, i + 1, depth)

(* lines 115-134: tell the polymorphic parents who we are *)
RegisterWithParents(st, s, i) ==
  IF i > Len(schemas[s].allOf) \/ st.error # NoError THEN st
  ELSE
    LET p == schemas[s].allOf[i]
        st1 == ResolveTypeDeclaration(st, p)
        st2 == IF st1.error = NoError /\ st1.classes[p].isPolymorphic
               THEN AddDiscriminator(
                      [st1 EXCEPT !.classes[s].parentModelClasses = Append(@, p)],
                      p, schemas[s].discriminatorValue, s, 1)
               ELSE st1
    IN RegisterWithParents(st2, s, i + 1)

(* lines 140-143: handle <allOf>s *)
ImplementParents(st, s, i) ==
  IF i > Len(schemas[s].allOf) \/ st.error # NoError THEN st
  ELSE ImplementParents(
         ImplementInterfaceForParentSchema(st, s, schemas[s].allOf[i], 1), s, i + 1)

(* lines 149-160: a field and the validation statements of each own property *)
OwnFields(s) ==
  [i \in 1..Len(schemas[s].properties) |-> [name |-> <<"_">> \o schemas[s].properties[i].name]]

RECURSIVE OwnValidation(_, _)
OwnValidation(s, i) ==
  IF i > Len(schemas[s].properties) THEN <<>>
  ELSE LET prop == schemas[s].properties[i]
       IN (IF prop.required
           THEN <<[check |-> "presence", of |-> "own", name |-> prop.name]>>
           ELSE <<>>)
          \o <<[check |-> "value", of |-> "own", name |-> prop.name]>>
          \o OwnValidation(s, i + 1)

AddProperties(st, s) ==
  IF st.error # NoError THEN st
  ELSE [st EXCEPT !.classes[s].fields = @ \o OwnFields(s),
                  !.classes[s].validationStatements = @ \o OwnValidation(s, 1)]

(* lines 183-193: additionalProperties *)
AdditionalPropertiesMembers(s) ==
  IF schemas[s].additionalProperties # "absent"
  THEN IF schemas[s].additionalProperties = "any"
       THEN {"IDictionary<string,object>"}
       ELSE {}
  ELSE {}

(* lines 194-208: the Validate method; the project has no storage pipeline *)
StoragePipeline == FALSE

ValidateMembers(cls) ==
  IF ~StoragePipeline /\ cls.validationStatements # <<>>
  THEN {"IValidates", "Validate"}
  ELSE {}

(* lines 215-235: the header deserializer method *)
ReadHeadersMembers(cls) == IF cls.hasHeaderProperties THEN {"ReadHeaders"} ELSE {}

Finish(st, s) ==
  IF st.error # NoError THEN st
  ELSE [st EXCEPT !.classes[s].members =
          @ \cup AdditionalPropertiesMembers(s)
            \cup ValidateMembers(st.classes[s])
            \cup ReadHeadersMembers(st.classes[s])]

(* new ModelClass(namespace, schema, state) *)
Build(st, s) ==
  LET st0 == [st EXCEPT !.classes[s] = NewClass(s)]
      st1 == IF schemas[s].discriminatorValue # NoValue
             THEN RegisterWithParents(st0, s, 1)
             ELSE st0
      st2 == ImplementParents(st1, s, 1)
      st3 == AddProperties(st2, s)
  IN Finish(st3, s)

(***************************************************************************)
(* The build pass: the schemas are resolved one after the other, in any    *)
(* order; resolving one builds every schema it needs first.                *)
(***************************************************************************)
InitNames ==
  /\ nameFields = <<>>
  /\ nameBase = <<>>
  /\ nameResult = [called |-> FALSE, thrown |-> FALSE, name |-> <<>>]

NoClass ==
  /\ classes = [s \in Schemas |-> Unbuilt]
  /\ error = NoError
  /\ InitNames

InitPoly ==
  /\ \E g \in Graphs(NumSchemas, FALSE), d \in [Schemas -> BOOLEAN], v \in [Schemas -> BOOLEAN] :
       schemas = PolySchemas(g, d, v)
  /\ NoClass

InitShape ==
  /\ \E g \in Graphs(NumSchemas, TRUE),
        a \in [Schemas -> {"absent", "any", "typed"}],
        p \in {f \in [Schemas -> UNION {PropertyChoices(s) : s \in Schemas}] :
                 \A s \in Schemas : f[s] \in PropertyChoices(s)} :
       schemas = ShapeSchemas(g, p, a)
  /\ NoClass

Init == InitPoly \/ InitShape

Resolve(s) ==
  /\ error = NoError
  /\ ~classes[s].built
  /\ LET st == Build([classes |-> classes, error |-> NoError], s)
     IN /\ classes' = st.classes
        /\ error' = st.error
  /\ UNCHANGED <<schemas, nameFields, nameBase, nameResult>>

Next == \E s \in Schemas : Resolve(s)

Spec == Init /\ [][Next]_vars

SpecPoly == InitPoly /\ [][Next]_vars

(* schema graphs in which any other schema may be a parent: the allOf edges  *)
(* may form cycles                                                           *)
InitCyclic ==
  /\ \E g \in {f \in [Schemas -> {q \in SeqsUpTo(Schemas, MaxAllOf) : NoRepeat(q)}] :
                 \A s \in Schemas : \A i \in 1..Len(f[s]) : f[s][i] # s},
        d \in [Schemas -> BOOLEAN], v \in [Schemas -> BOOLEAN] :
       schemas = PolySchemas(g, d, v)
  /\ NoClass

SpecCyclic == InitCyclic /\ [][Next]_vars

Done == error = NoError /\ \A s \in Schemas : classes[s].built

(***************************************************************************)
(* getPrivateNameForField on its own: a field list and a base name, then   *)
(* one call.  The field lists are a base name and its suffixed names up to *)
(* some suffix, with at most one of them left out.                         *)
(***************************************************************************)
NameBases == {<<"_", "m">>, <<"_", "m", "1">>}

Candidate(baseName, k) == IF k = -1 THEN baseName ELSE baseName \o NumberToString(k)

FieldLists ==
  {SelectSeq([i \in 1..(k + 2) |-> [name |-> Candidate(b, i - 2)]],
             LAMBDA f : hole = -2 \/ f.name # Candidate(b, hole)) :
     b \in NameBases, k \in (-2)..MaxSuffix, hole \in (-2)..MaxSuffix}

InitNamesOnly ==
  /\ schemas = [s \in Schemas |->
                  [allOf |-> <<>>, discriminator |-> FALSE, discriminatorValue |-> NoValue,
                   properties |-> <<>>, additionalProperties |-> "absent"]]
  /\ classes = [s \in Schemas |-> Unbuilt]
  /\ error = NoError
  /\ nameFields \in FieldLists
  /\ nameBase \in NameBases
  /\ nameResult = [called |-> FALSE, thrown |-> FALSE, name |-> <<>>]

CallGetPrivateNameForField ==
  /\ ~nameResult.called
  /\ LET r == GetPrivateNameForField(nameFields, nameBase)
     IN nameResult' = [called |-> TRUE, thrown |-> r.thrown, name |-> r.name]
  /\ UNCHANGED <<schemas, classes, error, nameFields, nameBase>>

NextNames == CallGetPrivateNameForField

SpecNames == InitNamesOnly /\ [][NextNames]_vars

(***************************************************************************)
(* Vocabulary of the properties.                                           *)
(***************************************************************************)
Parents(s) == {schemas[s].allOf[i] : i \in 1..Len(schemas[s].allOf)}

RECURSIVE Ancestors(_)
Ancestors(s) == Parents(s) \cup UNION {Ancestors(p) : p \in Parents(s)}

HasValue(s) == schemas[s].discriminatorValue # NoValue

Maps(r, d) ==
  /\ schemas[d].discriminatorValue \in DOMAIN classes[r].discriminators
  /\ classes[r].discriminators[schemas[d].discriminatorValue] = d

Chain(r, c, g) ==
  /\ schemas[r].discriminator
  /\ r \in Parents(c) /\ HasValue(c) /\ schemas[c].discriminator
  /\ c \in Parents(g) /\ HasValue(g)

(* C1: for a polymorphic root R, a polymorphic child C of R with a          *)
(* discriminator value and a grandchild G of C with a discriminator value,  *)
(* once every schema is built (in whatever order they were resolved) R maps *)
(* the values of C and of G to C and G, and C maps the value of G to G.     *)
C1_ChainPropagation ==
  Done => \A r, c, g \in Schemas :
            Chain(r, c, g) => Maps(r, c) /\ Maps(r, g) /\ Maps(c, g)

C1_Witness ==
  /\ Done
  /\ \E r, c, g \in Schemas :
       /\ Chain(r, c, g) /\ schemas[r].allOf = <<>>
       /\ Maps(r, c) /\ Maps(r, g) /\ Maps(c, g)

(* C2: once every schema is built, every polymorphic ancestor (along allOf  *)
(* edges, through any kind of intermediate parent) of a schema D that has a *)
(* discriminator value maps that value to D.                                *)
C2_TransitiveDiscriminator ==
  Done => \A d \in Schemas : \A a \in Ancestors(d) :
            (HasValue(d) /\ schemas[a].discriminator) => Maps(a, d)

AnimalScenario(a, dog, cat) ==
  /\ dog # cat
  /\ schemas[a].discriminator /\ schemas[a].allOf = <<>>
  /\ \A k \in {dog, cat} :
       HasValue(k) /\ ~schemas[k].discriminator /\ schemas[k].allOf = <<a>>
  /\ \A o \in Schemas \ {dog, cat} : ~(HasValue(o) /\ a \in Parents(o))

(* C3: a built descriptor is polymorphic exactly when its schema declares a *)
(* discriminator property; and for a root Animal with a discriminator       *)
(* property whose only subclasses with a discriminator value are Dog and    *)
(* Cat, after the build Animal's discriminator map is exactly               *)
(* {dog -> Dog, cat -> Cat}, Dog is not polymorphic and Animal is.          *)
C3_PolymorphicRoot ==
  /\ \A s \in Schemas :
       classes[s].built => (classes[s].isPolymorphic <=> schemas[s].discriminator)
  /\ Done => \A a, dog, cat \in Schemas :
               AnimalScenario(a, dog, cat) =>
                 /\ DOMAIN classes[a].discriminators =
                      {schemas[dog].discriminatorValue, schemas[cat].discriminatorValue}
                 /\ Maps(a, dog) /\ Maps(a, cat)
                 /\ ~classes[dog].isPolymorphic
                 /\ classes[a].isPolymorphic

C3_Witness ==
  /\ Done
  /\ \E a, dog, cat \in Schemas :
       AnimalScenario(a, dog, cat) /\ Maps(a, dog) /\ Maps(a, cat)

PairwiseDistinct(q) == \A i, j \in 1..Len(q) : i # j => q[i] # q[j]

(* C4: a built schema whose allOf lists N pairwise distinct parents has     *)
(* exactly N backing entries, the i-th one for the i-th parent, each parent *)
(* being built.                                                             *)
C4_BackingEntryPerParent ==
  \A s \in Schemas :
    (classes[s].built /\ PairwiseDistinct(schemas[s].allOf)) =>
      /\ Len(classes[s].backingFields) = Len(schemas[s].allOf)
      /\ \A i \in 1..Len(schemas[s].allOf) :
           /\ classes[s].backingFields[i].typeDeclaration = schemas[s].allOf[i]
           /\ classes[schemas[s].allOf[i]].built

Occurrences(q, x) == Cardinality({i \in 1..Len(q) : q[i] = x})

BackingEntriesFor(s, p) ==
  Cardinality({i \in 1..Len(classes[s].backingFields) :
                 classes[s].backingFields[i].typeDeclaration = p})

(* C5: a built schema whose allOf lists the same parent more than once has  *)
(* exactly one backing entry for that parent, and the parent's interface is *)
(* on the descriptor's interface exactly once.                              *)
C5_DuplicateParentOnce ==
  \A s \in Schemas : \A p \in Parents(s) :
    (classes[s].built /\ Occurrences(schemas[s].allOf, p) > 1) =>
      /\ BackingEntriesFor(s, p) = 1
      /\ Occurrences(classes[s].interfaces, p) = 1

(* C6: a built descriptor exposes, for every property X of every ancestor,  *)
(* a proxy with a read operation, and with a write operation exactly when X *)
(* is not read-only.                                                        *)
C6_ReadOnlyProxy ==
  \A d \in Schemas : \A a \in Ancestors(d) :
    classes[d].built =>
      \A i \in 1..Len(schemas[a].properties) :
        \E j \in 1..Len(classes[d].properties) :
          /\ classes[d].properties[j].name = schemas[a].properties[i].name
          /\ classes[d].properties[j].getter
          /\ classes[d].properties[j].setter <=> ~schemas[a].properties[i].readOnly

(* C7: getPrivateNameForField returns the base name when no field has it,   *)
(* otherwise the base name with the smallest suffix 0, 1, 2, ... that no    *)
(* field has; the name returned is never the name of a field; and the call  *)
(* throws exactly when the base name and every suffixed name it tries are   *)
(* taken.                                                                   *)
C7_FieldRenaming ==
  nameResult.called =>
    LET taken == FieldNames(nameFields)
        tried == (-1)..(MaxAttempts - 2)
    IN IF nameResult.thrown
       THEN \A k \in tried : Candidate(nameBase, k) \in taken
       ELSE /\ nameResult.name \notin taken
            /\ \E k \in tried :
                 /\ nameResult.name = Candidate(nameBase, k)
                 /\ \A j \in (-1)..(k - 1) : Candidate(nameBase, j) \in taken

C7_Witness ==
  /\ nameResult.called
  /\ ~nameResult.thrown
  /\ nameBase \in FieldNames(nameFields)
  /\ Candidate(nameBase, 0) \in FieldNames(nameFields)
  /\ nameResult.name = Candidate(nameBase, 1)

C7_WitnessThrown == nameResult.called /\ nameResult.thrown

HeaderSourced(s) ==
  \E a \in {s} \cup Ancestors(s) :
    \E i \in 1..Len(schemas[a].properties) : schemas[a].properties[i].header

(* C8: a built descriptor has ReadHeaders exactly when one of its own       *)
(* properties or one of the properties of an ancestor is a header.          *)
C8_HeaderCapability ==
  \A s \in Schemas :
    classes[s].built => (("ReadHeaders" \in classes[s].members) <=> HeaderSourced(s))

Dictionaries == {"IDictionary<string,object>", "IDictionary<string,T>"}

(* C9: a built descriptor has the generic dictionary capability when its    *)
(* additionalProperties is "any", the typed one when it is typed, and none  *)
(* when it is absent.                                                       *)
C9_AdditionalProperties ==
  \A s \in Schemas :
    classes[s].built =>
      classes[s].members \cap Dictionaries =
        CASE schemas[s].additionalProperties = "any" -> {"IDictionary<string,object>"}
          [] schemas[s].additionalProperties = "typed" -> {"IDictionary<string,T>"}
          [] OTHER -> {}

Flattened(d) ==
  {classes[d].backingFields[i].typeDeclaration : i \in 1..Len(classes[d].backingFields)}

Exposed(d) == {classes[d].properties[j].name : j \in 1..Len(classes[d].properties)}

(* C10: flattening never fails to terminate, and a built descriptor has     *)
(* flattened every ancestor at every level and exposes every property of    *)
(* every ancestor.                                                          *)
C10_MultiLevelFlattening ==
  /\ error # RangeError
  /\ \A d \in Schemas :
       classes[d].built =>
         /\ Ancestors(d) \subseteq Flattened(d)
         /\ \A a \in Ancestors(d) :
              \A i \in 1..Len(schemas[a].properties) :
                schemas[a].properties[i].name \in Exposed(d)

(* s registers with p: p is a polymorphic direct parent of s and s has a    *)
(* discriminator value                                                      *)
PolymorphicParent(s, p) ==
  /\ schemas[s].discriminatorValue # NoValue
  /\ \E i \in 1..Len(schemas[s].allOf) : schemas[s].allOf[i] = p
  /\ schemas[p].discriminator

RECURSIVE PolymorphicAncestorsIn(_, _)
PolymorphicAncestorsIn(s, n) ==
  IF n = 0 THEN {}
  ELSE LET direct == {p \in Schemas : PolymorphicParent(s, p)}
       IN direct \cup UNION {PolymorphicAncestorsIn(p, n - 1) : p \in direct}

PolymorphicCycle == \E s \in Schemas : s \in PolymorphicAncestorsIn(s, NumSchemas)

BuildEnded == error # NoError \/ \A s \in Schemas : classes[s].built

CyclicDiscriminatorPropagation == "CyclicDiscriminatorPropagation"

(* C11: addDiscriminator never recurses without end: while the polymorphic- *)
(* parent edges form a DAG the build raises no error, and when they form a  *)
(* cycle the build ends in the fatal CyclicDiscriminatorPropagation error   *)
(* and never by forwarding the registration until the call stack is         *)
(* exhausted.                                                               *)
C11_PropagationFailsCleanly ==
  /\ error # RangeError
  /\ ~PolymorphicCycle => error = NoError
  /\ (PolymorphicCycle /\ BuildEnded) => error = CyclicDiscriminatorPropagation

(* what the builder does instead: no error without a cycle, and with a      *)
(* cycle the forwarding runs until the call stack is exhausted              *)
C11_DagTerminates == ~PolymorphicCycle => error = NoError

C11_CycleOverflows == (PolymorphicCycle /\ BuildEnded) => error = RangeError

(* C12: in a built descriptor (with pairwise distinct parents) the          *)
(* validation statements are, first, for each direct parent in allOf order  *)
(* the presence check and then the value check of its composed instance,    *)
(* and after all of them, for each own property in declaration order, its   *)
(* presence check (a required property has one) and then its value check;   *)
(* no own-property check precedes a parent check.                           *)
C12_ValidationOrder ==
  \A s \in Schemas :
    (classes[s].built /\ NoRepeat(schemas[s].allOf)) =>
      LET v == classes[s].validationStatements
          n == Len(schemas[s].allOf)
          props == schemas[s].properties
          own == SubSeq(v, 2 * n + 1, Len(v))
          values == SelectSeq(own, LAMBDA e : e.check = "value")
      IN /\ Len(v) >= 2 * n
         /\ \A i \in 1..n :
              /\ v[2 * i - 1] = [check |-> "presence", of |-> "parent",
                                 name |-> BackingFieldBaseName(schemas[s].allOf[i])]
              /\ v[2 * i] = [check |-> "value", of |-> "parent",
                             name |-> BackingFieldBaseName(schemas[s].allOf[i])]
         /\ \A k \in 1..Len(own) : own[k].of = "own"
         /\ Len(values) = Len(props)
         /\ \A i \in 1..Len(props) : values[i].name = props[i].name
         /\ \A k \in 1..Len(own) :
              own[k].check = "presence" =>
                /\ k < Len(own)
                /\ own[k + 1] = [own[k] EXCEPT !.check = "value"]
         /\ \A i \in 1..Len(props) :
              props[i].required =>
                \E k \in 1..Len(own) : own[k].check = "presence" /\ own[k].name = props[i].name

(* the part of the order that does not depend on the parents: a descriptor  *)
(* without parents has exactly the checks of its own properties, in order   *)
C12_OwnOrderWithoutParents ==
  \A s \in Schemas :
    (classes[s].built /\ schemas[s].allOf = <<>>) =>
      LET v == classes[s].validationStatements
          props == schemas[s].properties
          values == SelectSeq(v, LAMBDA e : e.check = "value")
      IN /\ \A k \in 1..Len(v) : v[k].of = "own"
         /\ Len(values) = Len(props)
         /\ \A i \in 1..Len(props) : values[i].name = props[i].name
         /\ \A k \in 1..Len(v) :
              v[k].check = "presence" =>
                k < Len(v) /\ v[k + 1] = [v[k] EXCEPT !.check = "value"]

====
